---- MODULE Spec2Model ----
(***************************************************************************)
(* Model of tools/make_nr/make_nr.py: make_nr(input_fasta, output_fasta,   *)
(* sep) reads every FASTA record of every input file into the index        *)
(* by_seq (upper-cased sequence -> list of identifiers), classifies the    *)
(* clusters into `unique`, `representatives` and `duplicates`, and then    *)
(* either rewrites the inputs into the output file or symlinks the output  *)
(* to the input.                                                           *)
(*                                                                         *)
(* A string is a sequence of characters; a FASTA record is                 *)
(* [title |-> string, seq |-> string], as SimpleFastaParser yields it.     *)
(***************************************************************************)
EXTENDS Integers, Sequences, FiniteSets, TLC

VARIABLES
    fs,               \* the input files on disk: file name -> list of records
    input_fasta,      \* the positional arguments: list of file names
    sep,              \* options.sep
    pc,               \* position in make_nr
    by_seq,           \* dict: upper-cased sequence -> list of identifiers
    unique,           \* counter of clusters of length 1
    representatives,  \* dict: first identifier -> cluster
    duplicates,       \* set of identifiers
    output_fasta,     \* what is at the output path
    written_at,       \* history: input position at which each write happened
    stdout,           \* the summary line printed
    error             \* the exception that ended the run, if any

vars == <<fs, input_fasta, sep, pc, by_seq, unique, representatives,
          duplicates, output_fasta, written_at, stdout, error>>

----------------------------------------------------------------------------
(* Bounds and input alphabets *)

MaxRecords == 4
MaxFiles == 2

\* the titles and sequences the input records are drawn from: two
\* identifiers, one followed by a description, and two sequences, one of
\* them in two spellings that differ in case only
Titles == { <<"a">>, <<"b", " ", "x">> }
SeqStrings == { <<"A", "c">>, <<"a", "C">>, <<"G">> }
Records == [title : Titles, seq : SeqStrings]

\* options.sep: the default
Seps == { ";" }

\* a wider alphabet, for the runs whose identifiers are pairwise distinct
TitlesWide == Titles \cup { <<"c">>, <<"d", " ", "y">> }
RecordsWide == [title : TitlesWide, seq : SeqStrings]
SepsWide == { ";", "|" }

FileName(i) == <<"input", i>>

----------------------------------------------------------------------------
(* Python string and container primitives *)

Whitespace == { " " }

\* s.upper(), per character
UpperChar(c) ==
    CASE c = "a" -> "A"
      [] c = "c" -> "C"
      [] c = "g" -> "G"
      [] OTHER -> c

Upper(s) == [i \in 1..Len(s) |-> UpperChar(s[i])]

RECURSIVE LStrip(_)
LStrip(s) ==
    IF s # <<>> /\ Head(s) \in Whitespace THEN LStrip(Tail(s)) ELSE s

RECURSIVE TakeWord(_)
TakeWord(s) ==
    IF s = <<>> \/ Head(s) \in Whitespace THEN <<>>
    ELSE <<Head(s)>> \o TakeWord(Tail(s))

\* title.split(None, 1)[0]: the first whitespace-delimited word
FirstWord(title) == TakeWord(LStrip(title))

\* sep.join(cluster)
RECURSIVE Join(_, _)
Join(s, cluster) ==
    IF cluster = <<>> THEN <<>>
    ELSE IF Len(cluster) = 1 THEN Head(cluster)
    ELSE Head(cluster) \o <<s>> \o Join(s, Tail(cluster))

Digit(d) == <<"0", "1", "2", "3", "4", "5", "6", "7", "8", "9">>[d + 1]

\* "%i" % n for n >= 0
RECURSIVE Itoa(_)
Itoa(n) == IF n < 10 THEN <<Digit(n)>> ELSE Itoa(n \div 10) \o <<Digit(n % 10)>>

\* "%s representing %i records" % (idn, n)
RepresentingTitle(idn, n) ==
    idn \o <<" ", "representing", " ">> \o Itoa(n) \o <<" ", "records">>

EmptyDict == [k \in {} |-> <<>>]

DictSet(d, k, v) == [x \in DOMAIN d \cup {k} |-> IF x = k THEN v ELSE d[x]]

\* os.path.abspath(path): os.fspath raises TypeError unless path is a str
PyList(l) == [type |-> "list", value |-> l]
PyStr(s) == [type |-> "str", value |-> s]

abspath(path) ==
    IF path.type = "str"
    THEN [raised |-> "none", value |-> <<"/cwd">> \o <<path.value>>]
    ELSE [raised |-> "TypeError", value |-> <<>>]

----------------------------------------------------------------------------
(* The record stream of the nested loops over files and records *)

RECURSIVE Stream(_, _, _)
Stream(files, names, k) ==
    IF k > Len(names) THEN <<>>
    ELSE [i \in 1..Len(files[names[k]]) |->
             [file |-> k, index |-> i,
              title |-> files[names[k]][i].title,
              seq |-> files[names[k]][i].seq]]
         \o Stream(files, names, k + 1)

Replay == Stream(fs, input_fasta, 1)

----------------------------------------------------------------------------
(* Pass 1: the index *)

IndexRecord(idx, rec) ==
    LET idn == FirstWord(rec.title)
        key == Upper(rec.seq)
    IN  IF key \in DOMAIN idx
        THEN [idx EXCEPT ![key] = Append(@, idn)]
        ELSE DictSet(idx, key, <<idn>>)

RECURSIVE IndexRecords(_, _)
IndexRecords(idx, recs) ==
    IF recs = <<>> THEN idx
    ELSE IndexRecords(IndexRecord(idx, Head(recs)), Tail(recs))

BuildIndex == IndexRecords(EmptyDict, Replay)

----------------------------------------------------------------------------
(* Classification of the clusters *)

\* ClassifyCluster with the slice cluster[2:] in place of cluster[1:]
ClassifyCluster_SliceFromTwo(acc, cluster) ==
    IF Len(cluster) > 1
    THEN [acc EXCEPT
            !.representatives = DictSet(@, cluster[1], cluster),
            !.duplicates = @ \cup { cluster[i] : i \in 3..Len(cluster) }]
    ELSE [acc EXCEPT !.unique = @ + 1]

\* one iteration of `for cluster in by_seq.values()`
ClassifyCluster(acc, cluster) ==
    IF Len(cluster) > 1
    THEN [acc EXCEPT
            !.representatives = DictSet(@, cluster[1], cluster),
            !.duplicates = @ \cup { cluster[i] : i \in 2..Len(cluster) }]
    ELSE [acc EXCEPT !.unique = @ + 1]

RECURSIVE ClassifyFrom(_, _, _)
ClassifyFrom(acc, idx, order) ==
    IF order = <<>> THEN acc
    ELSE ClassifyFrom(ClassifyCluster(acc, idx[Head(order)]), idx, Tail(order))

ClassifyIn(idx, order) ==
    ClassifyFrom([unique |-> 0, representatives |-> EmptyDict, duplicates |-> {}],
                 idx, order)

\* the orders in which a dict with key set S may be iterated
Orders(S) ==
    { o \in [1..Cardinality(S) -> S] :
        \A i, j \in 1..Cardinality(S) : i # j => o[i] # o[j] }

----------------------------------------------------------------------------
(* Pass 2: the rewriting loop *)

\* one iteration of the inner loop: the list of writes it makes (none or one)
RewriteRecord(rec, reps, dups, s) ==
    LET idn == FirstWord(rec.title)
    IN  IF idn \in DOMAIN reps
        THEN << [at |-> <<rec.file, rec.index>>,
                 title |-> RepresentingTitle(Join(s, reps[idn]), Len(reps[idn])),
                 seq |-> rec.seq] >>
        ELSE IF idn \in dups
        THEN << >>
        ELSE << [at |-> <<rec.file, rec.index>>,
                 title |-> rec.title, seq |-> rec.seq] >>

RECURSIVE RewriteRecords(_, _, _, _)
RewriteRecords(recs, reps, dups, s) ==
    IF recs = <<>> THEN <<>>
    ELSE RewriteRecord(Head(recs), reps, dups, s)
         \o RewriteRecords(Tail(recs), reps, dups, s)

----------------------------------------------------------------------------
(* The state machine *)

\* the ways to cut a list of n records into k consecutive files
Cuts(n, k) ==
    { c \in [0..k -> 0..n] :
        /\ c[0] = 0
        /\ c[k] = n
        /\ \A i \in 1..k : c[i-1] <= c[i] }

SubSeqOrEmpty(s, m, n) == [i \in 1..(n - m + 1) |-> s[m + i - 1]]

InitInputs(R, S) ==
    /\ \E k \in 1..MaxFiles, n \in 0..MaxRecords :
         \E c \in Cuts(n, k), flat \in [1..n -> R] :
            /\ input_fasta = [i \in 1..k |-> FileName(i)]
            /\ fs = [f \in { FileName(i) : i \in 1..k } |->
                        SubSeqOrEmpty(flat, c[f[2] - 1] + 1, c[f[2]])]
    /\ sep \in S

InitState ==
    /\ pc = "index"
    /\ by_seq = EmptyDict
    /\ unique = 0
    /\ representatives = EmptyDict
    /\ duplicates = {}
    /\ output_fasta = [kind |-> "absent", records |-> <<>>, target |-> <<>>]
    /\ written_at = <<>>
    /\ stdout = <<>>
    /\ error = "none"

Init == InitInputs(Records, Seps) /\ InitState

\* lines 55-68: pass 1 over the record stream
Index ==
    /\ pc = "index"
    /\ \E recs \in { Replay } : by_seq' = IndexRecords(EmptyDict, recs)
    /\ pc' = "classify"
    /\ UNCHANGED <<fs, input_fasta, sep, unique, representatives, duplicates,
                   output_fasta, written_at, stdout, error>>

\* lines 69-78: the clusters are visited in the dict's iteration order, which
\* the language fixes only from Python 3.7 on; `del by_seq` ends the step
Classify ==
    /\ pc = "classify"
    /\ \E order \in Orders(DOMAIN by_seq) :
         LET r == ClassifyIn(by_seq, order)
         IN  /\ unique' = r.unique
             /\ representatives' = r.representatives
             /\ duplicates' = r.duplicates
    /\ by_seq' = EmptyDict
    /\ pc' = "branch"
    /\ UNCHANGED <<fs, input_fasta, sep, output_fasta, written_at, stdout, error>>

\* lines 79-95: pass 2 re-reads the record stream and writes the output file
Rewrite ==
    /\ pc = "branch"
    /\ duplicates # {}
    /\ \E recs \in { Replay } :
         \E w \in { RewriteRecords(recs, representatives, duplicates, sep) } :
            /\ output_fasta' =
                 [kind |-> "file",
                  records |-> [i \in 1..Len(w) |->
                                  [title |-> w[i].title, seq |-> w[i].seq]],
                  target |-> <<>>]
            /\ written_at' = [i \in 1..Len(w) |-> w[i].at]
    /\ stdout' = <<"unique entries; removed duplicates leaving representative records",
                   unique, Cardinality(duplicates),
                   Cardinality(DOMAIN representatives)>>
    /\ pc' = "done"
    /\ UNCHANGED <<fs, input_fasta, sep, by_seq, unique, representatives,
                   duplicates, error>>

\* lines 96-98: input_fasta, the list of file names, is what abspath is given
Symlink ==
    /\ pc = "branch"
    /\ duplicates = {}
    /\ LET p == abspath(PyList(input_fasta))
       IN  IF p.raised = "none"
           THEN /\ output_fasta' =
                     [kind |-> "symlink", records |-> <<>>, target |-> p.value]
                /\ stdout' = <<"No perfect duplicates in file, unique entries",
                               unique>>
                /\ error' = "none"
                /\ pc' = "done"
           ELSE /\ error' = p.raised
                /\ pc' = "raised"
                /\ UNCHANGED <<output_fasta, stdout>>
    /\ UNCHANGED <<fs, input_fasta, sep, by_seq, unique, representatives,
                   duplicates, written_at>>

Next == Index \/ Classify \/ Rewrite \/ Symlink

Spec == Init /\ [][Next]_vars

----------------------------------------------------------------------------
(* Vocabulary of the properties, defined on the inputs and not on by_seq *)

Classified == pc \in {"branch", "done", "raised"}
Rewritten == pc = "done" /\ output_fasta.kind = "file"
Out == output_fasta.records

Positions == 1..Len(Replay)
KeyAt(i) == Upper(Replay[i].seq)
IdAt(i) == FirstWord(Replay[i].title)
At(i) == <<Replay[i].file, Replay[i].index>>

\* the input positions carrying the upper-cased sequence K, and the first one
PositionsOf(K) == { i \in Positions : KeyAt(i) = K }
FirstOf(K) == CHOOSE i \in PositionsOf(K) : \A j \in PositionsOf(K) : i <= j

\* the identifiers of the records carrying K, in first-encountered order
RECURSIVE IdsFrom(_, _)
IdsFrom(K, i) ==
    IF i > Len(Replay) THEN <<>>
    ELSE (IF KeyAt(i) = K THEN <<IdAt(i)>> ELSE <<>>) \o IdsFrom(K, i + 1)

IdsOf(K) == IdsFrom(K, 1)

HasDuplicateSequence == \E i, j \in Positions : i < j /\ KeyAt(i) = KeyAt(j)
DistinctIdentifiers == \A i, j \in Positions : i # j => IdAt(i) # IdAt(j)

IsCombined(r) == \E i \in 1..Len(r.title) : r.title[i] = "representing"

RECURSIVE SumLen(_, _)
SumLen(d, S) ==
    IF S = {} THEN 0
    ELSE LET k == CHOOSE x \in S : TRUE
         IN  Len(d[k]) + SumLen(d, S \ {k})

----------------------------------------------------------------------------
(* Properties *)

\* C1: when at least two input records share an upper-cased sequence, the
\* output written holds exactly one record for each distinct upper-cased
\* sequence of the inputs: none is emitted twice and none is lost, whether
\* or not the identifiers of the records are distinct.
C1_OneRecordPerSequence ==
    (pc = "done" /\ HasDuplicateSequence) =>
        /\ output_fasta.kind = "file"
        /\ { Upper(Out[k].seq) : k \in 1..Len(Out) } = { KeyAt(i) : i \in Positions }
        /\ \A k, l \in 1..Len(Out) : k # l => Upper(Out[k].seq) # Upper(Out[l].seq)

\* C2: after the classification loop, the keys of representatives and the
\* set duplicates are disjoint, for every input.
C2_RepresentativesDisjointFromDuplicates ==
    Classified => (DOMAIN representatives) \cap duplicates = {}

\* C3: with no two records sharing an upper-cased sequence and exactly one
\* input file, make_nr skips the rewriting pass, ends without error and
\* leaves the output as a symbolic link to the absolute path of that file,
\* printing only the unique-entry count.
C3_SingleInputAlias ==
    (pc \in {"done", "raised"} /\ ~HasDuplicateSequence /\ Len(input_fasta) = 1) =>
        /\ pc = "done"
        /\ error = "none"
        /\ written_at = <<>>
        /\ output_fasta.kind = "symlink"
        /\ output_fasta.target = abspath(PyStr(input_fasta[1])).value
        /\ stdout = <<"No perfect duplicates in file, unique entries", Len(Replay)>>

\* C4: after classification, unique plus the sum of the lengths of the
\* clusters stored in representatives equals the number of records read.
C4_CountsAddUp ==
    Classified =>
        unique + SumLen(representatives, DOMAIN representatives) = Len(Replay)

\* C5: the records are written in input replay order (the writes happen at
\* increasing input positions, each carrying the sequence read there), and
\* the combined record of each duplicate cluster is written at the position
\* of the first input record having the cluster's sequence, and nowhere else.
C5_ReplayOrder ==
    Rewritten =>
        /\ \A k \in 1..Len(Out) :
             \E i \in Positions : written_at[k] = At(i) /\ Out[k].seq = Replay[i].seq
        /\ \A k, l \in 1..Len(Out) :
             k < l => \E i, j \in Positions :
                        i < j /\ written_at[k] = At(i) /\ written_at[l] = At(j)
        /\ \A K \in { KeyAt(i) : i \in Positions } :
             Len(IdsOf(K)) > 1 =>
               LET t == RepresentingTitle(Join(sep, IdsOf(K)), Len(IdsOf(K)))
                   mine == { k \in 1..Len(Out) :
                               Out[k].title = t /\ Upper(Out[k].seq) = K }
               IN  /\ mine # {}
                   /\ \A k \in mine : written_at[k] = At(FirstOf(K))

\* C6: every combined record written is titled
\* "<id1><sep>...<idN> representing N records", where id1..idN are the
\* identifiers of all input records whose upper-cased sequence is that of
\* the emitted record, in first-encountered order, and N is their number.
C6_CombinedTitle ==
    Rewritten =>
        \A k \in 1..Len(Out) :
            IsCombined(Out[k]) =>
                LET ids == IdsOf(Upper(Out[k].seq))
                IN  Out[k].title = RepresentingTitle(Join(sep, ids), Len(ids))

\* C7: two records whose sequences differ only in letter case and whose
\* identifiers differ are put in the same cluster, and the single record
\* emitted for the cluster carries the sequence of its first-encountered
\* record in the original case.
C7_CaseInsensitiveCluster ==
    \A i, j \in Positions :
        (i < j /\ KeyAt(i) = KeyAt(j) /\ Replay[i].seq # Replay[j].seq
               /\ IdAt(i) # IdAt(j)) =>
            /\ pc = "classify" =>
                 /\ KeyAt(i) \in DOMAIN by_seq
                 /\ by_seq[KeyAt(i)] = IdsOf(KeyAt(i))
            /\ Rewritten =>
                 LET mine == { k \in 1..Len(Out) : Upper(Out[k].seq) = KeyAt(i) }
                 IN  /\ Cardinality(mine) = 1
                     /\ \A k \in mine : Out[k].seq = Replay[FirstOf(KeyAt(i))].seq

\* C8: in the rewriting pass every input record whose upper-cased sequence
\* occurs on no other input record is written exactly once, with its full
\* title and its sequence verbatim.
C8_UniqueRecordsVerbatim ==
    Rewritten =>
        \A i \in Positions :
            PositionsOf(KeyAt(i)) = {i} =>
                LET mine == { k \in 1..Len(Out) : written_at[k] = At(i) }
                IN  /\ Cardinality(mine) = 1
                    /\ \A k \in mine :
                         Out[k] = [title |-> Replay[i].title, seq |-> Replay[i].seq]

\* C9: the result of the classification (unique, representatives,
\* duplicates) is the same for every order in which the clusters of by_seq
\* are iterated.
C9_OrderIndependent ==
    Classified =>
        \A o \in Orders(DOMAIN BuildIndex) :
            ClassifyIn(BuildIndex, o) =
                [unique |-> unique, representatives |-> representatives,
                 duplicates |-> duplicates]

\* C10: after classification, representatives is empty if and only if
\* duplicates is empty, so a fast-path test on either selects the same branch.
C10_EmptyTogether ==
    Classified => ((DOMAIN representatives = {}) <=> (duplicates = {}))

C10_Witness ==
    /\ pc = "branch"
    /\ DOMAIN representatives # {}
    /\ duplicates # {}
    /\ unique > 0

----------------------------------------------------------------------------
(* The runs whose record identifiers are pairwise distinct *)

InitDistinct ==
    /\ InitInputs(RecordsWide, SepsWide)
    /\ InitState
    /\ DistinctIdentifiers

SpecDistinct == InitDistinct /\ [][Next]_vars

\* With pairwise distinct identifiers the properties C1, C2 and C4 to C9
\* hold: each of their failures under Spec needs an identifier that occurs
\* on two records.
DistinctIdentifiersContract ==
    /\ C1_OneRecordPerSequence
    /\ C2_RepresentativesDisjointFromDuplicates
    /\ C4_CountsAddUp
    /\ C5_ReplayOrder
    /\ C6_CombinedTitle
    /\ C7_CaseInsensitiveCluster
    /\ C8_UniqueRecordsVerbatim
    /\ C9_OrderIndependent

====
